---- MODULE Spec2Model ----
(***************************************************************************)
(* Model of streamlit_app.py: the DRAFT watermark tool.                    *)
(*                                                                         *)
(* Two specifications share this module.                                   *)
(*   SpecGeom  the watermark compositor: _load_font, _text_size,           *)
(*             _make_rotated_tile, _place_for_angle and the way            *)
(*             watermark_pdf_bytes / watermark_image_bytes call them.      *)
(*   Spec      the batch and the UI: convert_many, make_zip, the           *)
(*             file_uploader, session_state.converted and the two buttons. *)
(*                                                                         *)
(* Floating point.  The code computes margins, font size and scale in      *)
(* IEEE-754 doubles and truncates with int().  The model computes the same *)
(* values in exact integer arithmetic:                                     *)
(*   int(w * 0.015)            = Trunc(15 * w, 1000)                       *)
(*   int(sqrt(S) * 0.34)       = ISqrt(289 * S) \div 50                    *)
(*   int(r * (n/d * 0.978))    = (r * n * 489) \div (d * 500), except that *)
(*     when that quotient is exact the double product can fall one ulp     *)
(*     below the integer and int() then yields one less; the inputs of the *)
(*     model where IEEE-754 does so are listed in FloatBelow.              *)
(***************************************************************************)
EXTENDS Integers, Sequences, FiniteSets, TLC

VARIABLES
    fontFiles,   \* environment: the candidate font paths that exist and load
    call,        \* the last compositor call: its inputs and what it returned
    repeated,    \* history: the last call repeated the inputs of the one before
    uploaded,    \* st.file_uploader's value: the sequence of uploaded files
    converted,   \* st.session_state.converted
    run,         \* the convert_many call of the current script run, if any
    screen       \* what the current script run displayed

varsGeom == <<fontFiles, call, repeated>>
varsUI == <<uploaded, converted, run, screen>>
vars == <<fontFiles, call, repeated, uploaded, converted, run, screen>>

-----------------------------------------------------------------------------
(* Approved visual style: module constants, lines 14-25.                    *)

BASE_ANGLE == -45

\* MARGIN_FRAC = 0.015 as the fraction MARGIN_NUM / MARGIN_DEN
MARGIN_NUM == 15
MARGIN_DEN == 1000

\* FONT_DIAG_FRAC = 0.34 = 17/50
FONT_DIAG_NUM == 17
FONT_DIAG_DEN == 50

\* the "tiny safety shrink" 0.978 = 489/500 of _place_for_angle
SHRINK_NUM == 489
SHRINK_DEN == 500

IMG_TYPES == {"jpg", "jpeg", "png", "webp", "tif", "tiff", "bmp"}

-----------------------------------------------------------------------------
(* Arithmetic helpers: Python's max, min, int() and math on integers.       *)

Max(a, b) == IF a >= b THEN a ELSE b

Min(a, b) == IF a <= b THEN a ELSE b

\* int(n / d) for d > 0: Python's int() truncates toward zero
Trunc(n, d) == IF n >= 0 THEN n \div d ELSE -((-n) \div d)

\* ceil(n / d) for n >= 0, d > 0
CeilDiv(n, d) == (n + d - 1) \div d

RECURSIVE ISqrtBetween(_, _, _)
\* the largest r in lo..hi with r * r <= n, by bisection (lo * lo <= n)
ISqrtBetween(n, lo, hi) ==
    IF lo >= hi THEN lo
    ELSE LET mid == (lo + hi + 1) \div 2
         IN IF mid * mid <= n THEN ISqrtBetween(n, mid, hi)
                              ELSE ISqrtBetween(n, lo, mid - 1)

\* floor(sqrt(n)) for 0 <= n < 2^31
ISqrt(n) == ISqrtBetween(n, 0, Min(n, 46340))

-----------------------------------------------------------------------------
(* Font loader, lines 28-57.                                                *)

\* the paths _load_font probes, in its order: `prefer` first, then the list
FontPaths ==
    << "<here>/DejaVuSans-Bold.ttf",
       "/usr/share/fonts/truetype/dejavu/DejaVuSans-Bold.ttf",
       "/Library/Fonts/Arial Bold.ttf",
       "C:\\Windows\\Fonts\\arialbd.ttf",
       "DejaVuSans-Bold.ttf" >>

FontPathSet == {FontPaths[i] : i \in 1..Len(FontPaths)}

NoFont == [path |-> "none", px |-> 0]

\* ImageFont.load_default(): a fixed-size font, whatever px was asked for
DefaultFont == [path |-> "default", px |-> 0]

\* the first probed path that exists and loads, at size px; else the default
_load_font(px) ==
    LET found == {i \in 1..Len(FontPaths) : FontPaths[i] \in fontFiles}
    IN IF found = {} THEN DefaultFont
       ELSE [path |-> FontPaths[CHOOSE i \in found : \A j \in found : i <= j],
             px |-> px]

\* _text_size(d, "DRAFT", f): Pillow's measure of the text in font f.  The
\* glyph extents stand for FreeType's: DejaVu Sans Bold sets "DRAFT" about
\* 3.74 em wide and 0.73 em high, Arial Bold about 3.39 em and 0.72 em, and
\* the default font is 30 x 11 pixels at every requested size.
_text_size(f) ==
    CASE f.path = "default" -> <<30, 11>>
      [] f.path \in {FontPaths[3], FontPaths[4]} ->
            <<Max(1, (f.px * 339) \div 100), Max(1, (f.px * 72) \div 100)>>
      [] OTHER ->
            <<Max(1, (f.px * 374) \div 100), Max(1, (f.px * 73) \div 100)>>

-----------------------------------------------------------------------------
(* _make_rotated_tile, lines 60-77.                                         *)

\* mutant of font_size: the floor of 24 is left out
font_size_NoFloor(page_w, page_h) ==
    ISqrt(FONT_DIAG_NUM * FONT_DIAG_NUM * (page_w * page_w + page_h * page_h))
        \div FONT_DIAG_DEN

\* mutant of font_size: the size is taken from the page of the call before
font_size_Stale(page_w, page_h) ==
    LET pw == IF call.done THEN call.w ELSE page_w
        ph == IF call.done THEN call.h ELSE page_h
    IN Max(24, ISqrt(FONT_DIAG_NUM * FONT_DIAG_NUM * (pw * pw + ph * ph))
                 \div FONT_DIAG_DEN)

\* font_size = max(24, int(diag * FONT_DIAG_FRAC)), diag = sqrt(w^2 + h^2)
font_size(page_w, page_h) ==
    Max(24, ISqrt(FONT_DIAG_NUM * FONT_DIAG_NUM * (page_w * page_w + page_h * page_h))
              \div FONT_DIAG_DEN)

pad == 120

\* Image.rotate(a, expand=True) of a W x H tile, for a multiple of 45 degrees
\* (the only angles the application rotates by): the size of the bounding box
RotatedSize(W, H, a) ==
    CASE a \in {0, 180} -> <<W, H>>
      [] a \in {90, 270} -> <<H, W>>
      [] OTHER -> LET n == CeilDiv((W + H) * 70711, 100000) IN <<n, n>>

\* the rotated tile: the font it was drawn in and its size
_make_rotated_tile(page_w, page_h, angle_deg) ==
    LET fs == font_size(page_w, page_h)
        font == _load_font(fs)
        ts == _text_size(font)
    IN [font_size |-> fs,
        font |-> font,
        size |-> RotatedSize(ts[1] + 2 * pad, ts[2] + 2 * pad, angle_deg % 360)]

-----------------------------------------------------------------------------
(* _place_for_angle, lines 105-146.                                         *)

\* int(page_dim * MARGIN_FRAC)
Margin(page_dim) == Trunc(MARGIN_NUM * page_dim, MARGIN_DEN)

\* max(1, page_dim - 2 * margin)
MaxBox(page_dim) == Max(1, page_dim - 2 * Margin(page_dim))

\* mutant of MinScale: the height limit is left out of the min
MinScale_WidthOnly(max_w, max_h, rx, ry) ==
    IF rx < max_w THEN <<1, 1>> ELSE <<max_w, rx>>

\* min(max_w / rx, max_h / ry, 1.0) as a fraction <<n, d>>: Python's min
\* keeps the first of equal arguments
MinScale(max_w, max_h, rx, ry) ==
    LET a == IF max_h * rx < max_w * ry THEN <<max_h, ry>> ELSE <<max_w, rx>>
    IN IF a[2] < a[1] THEN <<1, 1>> ELSE a

\* The triples <<r, n, d>> of the model's inputs for which the double
\* r * ((n / d) * 0.978) is below its exact integer value (IEEE-754, round
\* to nearest even), so that int() gives one less than the exact quotient.
FloatBelow == {<<500, 1, 3>>, <<500, 2, 3>>, <<1000, 1, 3>>}

\* int(r * scale), scale = (n / d) * 0.978
ScaledDim(r, n, d) ==
    LET q == (r * n * SHRINK_NUM) \div (d * SHRINK_DEN)
    IN IF <<r, n, d>> \in FloatBelow THEN q - 1 ELSE q

\* lines 110-117: the size of the tile after the scale-to-fit resize
FitSize(page_w, page_h, rx, ry) ==
    LET s == MinScale(MaxBox(page_w), MaxBox(page_h), rx, ry)
    IN IF s[1] * SHRINK_NUM < s[2] * SHRINK_DEN     \* scale < 1.0
       THEN <<Max(1, ScaledDim(rx, s[1], s[2])), Max(1, ScaledDim(ry, s[1], s[2]))>>
       ELSE <<rx, ry>>

\* lines 119-146: the corner (or the centre) the effective angle selects
AnchorOf(angle_deg) ==
    LET ang == angle_deg % 360
    IN CASE 300 <= ang \/ ang < 30 -> "bottom_left"
         [] 30 <= ang /\ ang < 60 -> "top_left"
         [] 120 <= ang /\ ang < 150 -> "bottom_right"
         [] 210 <= ang /\ ang < 240 -> "top_right"
         [] OTHER -> "center"

\* the placement and the resized overlay for a rotated tile of size rx x ry
_place_for_angle(page_w, page_h, rx, ry, angle_deg) ==
    LET fit == FitSize(page_w, page_h, rx, ry)
        ow == fit[1]
        oh == fit[2]
        mx == Margin(page_w)
        my == Margin(page_h)
        anchor == AnchorOf(angle_deg)
    IN [anchor |-> anchor,
        ow |-> ow,
        oh |-> oh,
        x |-> CASE anchor \in {"bottom_left", "top_left"} -> mx
                [] anchor \in {"bottom_right", "top_right"} -> page_w - mx - ow
                [] OTHER -> (page_w - ow) \div 2,
        y |-> CASE anchor \in {"bottom_left", "bottom_right"} -> page_h - my - oh
                [] anchor \in {"top_left", "top_right"} -> my
                [] OTHER -> (page_h - oh) \div 2]

-----------------------------------------------------------------------------
(* The callers of the compositor, lines 149-153 and 177-184.                *)

\* mutant of EffectiveAngle: neither operand is reduced modulo 360
EffectiveAngle_Unreduced(rotation) == BASE_ANGLE - rotation

\* mutant of EffectiveAngle: the page rotation is added, not subtracted
EffectiveAngle_Added(rotation) == (BASE_ANGLE + (rotation % 360)) % 360

\* page_rot = (p.rotation or 0) % 360; effective_angle = (BASE_ANGLE - page_rot) % 360
EffectiveAngle(rotation) == (BASE_ANGLE - (rotation % 360)) % 360

\* what one compositor call returned, with its inputs
CallRecord(kind, page_w, page_h, rotation, angle_deg, tile, placed) ==
    [done |-> TRUE, kind |-> kind, w |-> page_w, h |-> page_h,
     rot |-> rotation, angle |-> angle_deg,
     font_size |-> tile.font_size, font |-> tile.font, tile |-> tile.size,
     anchor |-> placed.anchor, ow |-> placed.ow, oh |-> placed.oh,
     x |-> placed.x, y |-> placed.y,
     error |-> "none"]

NoCall ==
    [done |-> FALSE, kind |-> "none", w |-> 0, h |-> 0, rot |-> 0, angle |-> 0,
     font_size |-> 0, font |-> NoFont, tile |-> <<0, 0>>,
     anchor |-> "none", ow |-> 0, oh |-> 0, x |-> 0, y |-> 0, error |-> "none"]

\* one page of watermark_pdf_bytes: lines 178-184
ComposePage(page_w, page_h, rotation) ==
    LET eff == EffectiveAngle(rotation)
        tile == _make_rotated_tile(page_w, page_h, eff)
    IN CallRecord("pdf", page_w, page_h, rotation, eff, tile,
                  _place_for_angle(page_w, page_h, tile.size[1], tile.size[2], eff))

\* watermark_image_bytes: lines 151-153
ComposeImage(page_w, page_h) ==
    LET tile == _make_rotated_tile(page_w, page_h, BASE_ANGLE)
    IN CallRecord("image", page_w, page_h, 0, BASE_ANGLE, tile,
                  _place_for_angle(page_w, page_h, tile.size[1], tile.size[2], BASE_ANGLE))

\* _place_for_angle applied to a tile of any size, at any angle
PlaceOnly(page_w, page_h, rx, ry, angle_deg) ==
    CallRecord("place", page_w, page_h, 0, angle_deg,
               [font_size |-> 0, font |-> NoFont, size |-> <<rx, ry>>],
               _place_for_angle(page_w, page_h, rx, ry, angle_deg))

-----------------------------------------------------------------------------
(* convert_many and make_zip, lines 203-227.                                *)

\* A file name is the sequence of its dot-separated parts: <<"a", "png">> is
\* a.png, <<"e">> has no dot.  `data` says whether the bytes decode.
FilePool ==
    { [name |-> <<"a", "png">>, data |-> "ok"],
      [name |-> <<"b", "PDF">>, data |-> "ok"],
      [name |-> <<"c", "pdf">>, data |-> "corrupt"],
      [name |-> <<"d", "txt">>, data |-> "ok"],
      [name |-> <<"e">>, data |-> "ok"] }

\* str.lower() on the extensions in use
Lower(s) ==
    CASE s = "PDF" -> "pdf"
      [] s = "PNG" -> "png"
      [] OTHER -> s

\* ext = name.rsplit(".", 1)[-1].lower() if "." in name else ""
ExtOf(name) == IF Len(name) >= 2 THEN Lower(name[Len(name)]) ELSE ""

\* Image.open / fitz.open raise on bytes they cannot decode; neither
\* watermark_image_bytes nor watermark_pdf_bytes catches
Raises(f) == f.data = "corrupt"

\* the watermarked bytes of f
Stamped(f) == [watermark |-> "DRAFT", of |-> f.name]

\* f"{base}_DRAFT{e}" for an image, f"{base}_DRAFT.pdf" for a PDF, with
\* base, e = os.path.splitext(name)
OutName(f) ==
    [base |-> SubSeq(f.name, 1, Len(f.name) - 1),
     tag |-> "_DRAFT",
     ext |-> IF ExtOf(f.name) = "pdf" THEN "pdf" ELSE f.name[Len(f.name)]]

\* ext in IMG_TYPES, or ext == "pdf": the two converting branches
IsSupported(f) == ExtOf(f.name) \in IMG_TYPES \/ ExtOf(f.name) = "pdf"

IsSkipped(f) == ~IsSupported(f)

\* The loop of convert_many.  It runs the files in order and stops at the
\* first supported file whose conversion raises: the exception leaves the
\* function, so nothing is returned, and only the warnings already emitted
\* stay on the page.  Otherwise it returns one item per supported file and
\* has warned of every other file.
convert_many(files) ==
    LET bad == {i \in 1..Len(files) : IsSupported(files[i]) /\ Raises(files[i])}
        stop == IF bad = {} THEN Len(files) + 1
                ELSE CHOOSE i \in bad : \A j \in bad : i <= j
        seen == SubSeq(files, 1, stop - 1)
        good == SelectSeq(seen, IsSupported)
        skipped == SelectSeq(seen, IsSkipped)
    IN [called |-> TRUE,
        files |-> files,
        raised |-> bad # {},
        failed_at |-> IF bad = {} THEN 0 ELSE stop,
        out |-> IF bad # {} THEN <<>>
                ELSE [i \in 1..Len(good) |->
                         [fn |-> OutName(good[i]), bytes |-> Stamped(good[i])]],
        warned |-> [i \in 1..Len(skipped) |-> skipped[i].name]]

\* the archive: one entry per item, in order
make_zip(items) == [entries |-> [i \in 1..Len(items) |-> <<items[i].fn, items[i].bytes>>]]

-----------------------------------------------------------------------------
(* The UI script, lines 233-280: every event reruns it.                     *)

NoRun ==
    [called |-> FALSE, files |-> <<>>, raised |-> FALSE, failed_at |-> 0,
     out |-> <<>>, warned |-> <<>>]

NoZip == [entries |-> <<>>]

\* what a run shows: the event that caused it, an uncaught exception, the
\* st.success count (-1: none), and the "Click to Save ZIP" download
Shown(event, exception, success, offered, zip) ==
    [event |-> event, exception |-> exception, success |-> success,
     zipOffered |-> offered, zip |-> zip]

\* the ceiling of the spec's uploader ("e.g. 50 items per batch")
UploadCeiling == 50

MaxBatch == 3

\* the uploads tried: every batch of up to MaxBatch files of the pool, and
\* batches of one image repeated, at and above the ceiling
Batches ==
    UNION {[1..n -> FilePool] : n \in 0..MaxBatch}
    \cup {[i \in 1..n |-> [name |-> <<"a", "png">>, data |-> "ok"]] :
             n \in {UploadCeiling, UploadCeiling + 1}}

Init ==
    /\ uploaded = <<>>
    /\ converted = <<>>          \* lines 239-240
    /\ run = NoRun
    /\ screen = Shown("start", FALSE, -1, FALSE, NoZip)
    /\ fontFiles = {}
    /\ call = NoCall
    /\ repeated = FALSE

\* the user changes the selection of the file_uploader
ChangeUpload ==
    /\ \E files \in Batches :
          /\ files # uploaded
          /\ uploaded' = files
    /\ run' = NoRun
    /\ screen' = Shown("upload", FALSE, -1, FALSE, NoZip)
    /\ UNCHANGED <<converted, varsGeom>>

\* "Convert as a Draft", lines 244-250 (disabled while nothing is uploaded)
ClickConvert ==
    /\ uploaded # <<>>
    /\ LET r == convert_many(uploaded)
       IN /\ run' = r
          /\ converted' = IF r.raised THEN converted ELSE r.out
          /\ screen' = IF r.raised
                       THEN Shown("convert", TRUE, -1, FALSE, NoZip)
                       ELSE Shown("convert", FALSE, Len(r.out), FALSE, NoZip)
    /\ UNCHANGED <<uploaded, varsGeom>>

\* "Download Watermarked Files (ZIP)", lines 253-263
ClickZip ==
    /\ uploaded # <<>>
    /\ LET r == IF converted = <<>> THEN convert_many(uploaded) ELSE NoRun
           conv == IF r.called /\ ~r.raised THEN r.out ELSE converted
       IN /\ run' = r
          /\ converted' = conv
          /\ screen' = IF r.raised THEN Shown("zip", TRUE, -1, FALSE, NoZip)
                       ELSE IF conv # <<>>
                            THEN Shown("zip", FALSE, -1, TRUE, make_zip(conv))
                            ELSE Shown("zip", FALSE, -1, FALSE, NoZip)
    /\ UNCHANGED <<uploaded, varsGeom>>

\* "Click to Save ZIP": the browser saves the archive and the script reruns
\* with no button pressed
ClickSave ==
    /\ screen.zipOffered
    /\ run' = NoRun
    /\ screen' = Shown("save", FALSE, -1, FALSE, NoZip)
    /\ UNCHANGED <<uploaded, converted, varsGeom>>

Next == ChangeUpload \/ ClickConvert \/ ClickZip \/ ClickSave

Spec == Init /\ [][Next]_vars

-----------------------------------------------------------------------------
(* The compositor's specifications.                                         *)
(* SpecGeom: every call is followed by the compositing that consumes its    *)
(* result (the locals x, y, rotated of one loop iteration).                 *)
(* SpecPair: calls made back to back, the previous result still in `call`,  *)
(* over fewer inputs: what one call leaves to the next.                     *)

MaxTurn == 4

\* stored page rotations: multiples of 90, more than a full turn either way
Rotations == {90 * k : k \in (0 - MaxTurn)..MaxTurn}

\* int(rect.width), int(rect.height) of a PDF page: 0 for a page under 1 pt
PdfDims == {0, 1, 10, 67, 200, 612, 792}

\* the size of a decoded image
ImgDims == {1, 10, 67, 200, 612, 792}

PlaceDims == {-5, 0, 1, 2, 67, 200, 612}

TileDims == {1, 2, 3, 65, 500, 1000}

PlaceAngles == {-45, 20, 45, 90, 135, 225}

PairDims == {10, 792}

InitGeom ==
    /\ fontFiles \in SUBSET FontPathSet
    /\ call = NoCall
    /\ repeated = FALSE
    /\ uploaded = <<>>
    /\ converted = <<>>
    /\ run = NoRun
    /\ screen = Shown("start", FALSE, -1, FALSE, NoZip)

\* a font file is installed or removed
FontFilesChange ==
    /\ \E p \in FontPathSet :
          fontFiles' = IF p \in fontFiles THEN fontFiles \ {p} ELSE fontFiles \cup {p}
    /\ UNCHANGED <<call, repeated, varsUI>>

\* the compositor is given the inputs of the call before
SameInputs(c, d) ==
    /\ c.done /\ d.done
    /\ c.kind = d.kind /\ c.w = d.w /\ c.h = d.h /\ c.angle = d.angle

PdfPageOf(dims) ==
    /\ \E page_w \in dims, page_h \in dims, rotation \in Rotations :
          call' = ComposePage(page_w, page_h, rotation)
    /\ repeated' = SameInputs(call, call')
    /\ UNCHANGED <<fontFiles, varsUI>>

ImageOf(dims) ==
    /\ \E page_w \in dims, page_h \in dims :
          call' = ComposeImage(page_w, page_h)
    /\ repeated' = SameInputs(call, call')
    /\ UNCHANGED <<fontFiles, varsUI>>

\* watermark_pdf_bytes reaches a page
PdfPage == ~call.done /\ PdfPageOf(PdfDims)

\* watermark_image_bytes has decoded its image
ImagePage == ~call.done /\ ImageOf(ImgDims)

\* _place_for_angle called on its own
PlaceTile ==
    /\ ~call.done
    /\ \E page_w \in PlaceDims, page_h \in PlaceDims,
          rx \in TileDims, ry \in TileDims, angle_deg \in PlaceAngles :
          call' = PlaceOnly(page_w, page_h, rx, ry, angle_deg)
    /\ UNCHANGED <<fontFiles, repeated, varsUI>>

\* lines 154-156 and 186-196: the overlay is composited at (x, y) and dropped
Composite ==
    /\ call.done
    /\ call' = NoCall
    /\ UNCHANGED <<fontFiles, repeated, varsUI>>

NextGeom == FontFilesChange \/ PdfPage \/ ImagePage \/ PlaceTile \/ Composite

SpecGeom == InitGeom /\ [][NextGeom]_vars

\* the next page of the same document, the previous page's result in `call`
NextPdfPage == PdfPageOf(PairDims)

\* the next image of the batch
NextImage == ImageOf(PairDims)

NextPair == FontFilesChange \/ NextPdfPage \/ NextImage

SpecPair == InitGeom /\ [][NextPair]_vars

-----------------------------------------------------------------------------
(* Properties of the compositor.                                            *)

\* C1 (no-clip): after any call on a page with width, height > 0, whatever
\* the tile size and the rotation, the returned overlay placed at the
\* returned (x, y) lies inside the margin box
\* [mx, width - mx] x [my, height - my], mx, my = int(dimension * 0.015).
C1_NoClip ==
    (call.done /\ call.w > 0 /\ call.h > 0) =>
        /\ call.ow >= 1 /\ call.oh >= 1
        /\ call.x >= Margin(call.w)
        /\ call.y >= Margin(call.h)
        /\ call.x + call.ow <= call.w - Margin(call.w)
        /\ call.y + call.oh <= call.h - Margin(call.h)

\* a rotated PDF page whose tile was larger than the box and was shrunk
C1_Witness ==
    /\ call.done /\ call.kind = "pdf"
    /\ call.w = 612 /\ call.h = 792 /\ call.rot = 270
    /\ call.tile[1] > MaxBox(call.w)
    /\ call.ow < call.tile[1]
    /\ call.x = Margin(call.w) /\ call.x > 0

\* C4 (invalid geometry fails fast): a compositor call given a page width or
\* height <= 0 ends in an InvalidGeometry error and returns no overlay.
C4_InvalidGeometryFailsFast ==
    (call.done /\ call.kind \in {"pdf", "image"} /\ (call.w <= 0 \/ call.h <= 0)) =>
        /\ call.error = "InvalidGeometry"
        /\ call.ow = 0 /\ call.oh = 0

\* C5 (rotation periodicity): the effective angle of a PDF page is in
\* 0..359; any stored rotation that differs from the page's by a multiple of
\* 360 gives the same effective angle, the same rotated tile and the same
\* placement branch; the rotations 0, 90, 180, 270 give distinct angles.
\* (The tiles are compared while _load_font finds the font of the call.)
C5_RotationPeriodic ==
    (call.done /\ call.kind = "pdf") =>
        /\ call.angle \in 0..359
        /\ \A r \in Rotations \cup {call.rot + 360} :
              (r - call.rot) % 360 = 0 =>
                 LET other == ComposePage(call.w, call.h, r)
                 IN /\ other.angle = call.angle
                    /\ other.anchor = call.anchor
                    /\ other.font = call.font => other.tile = call.tile
        /\ \A r1, r2 \in {0, 90, 180, 270} :
              r1 # r2 => EffectiveAngle(r1) # EffectiveAngle(r2)

\* a page stored with rotation 360: it is treated as rotation 0
C5_Witness ==
    /\ call.done /\ call.kind = "pdf" /\ call.rot = 360 /\ call.w = 612
    /\ call.angle = 315 /\ call.anchor = "bottom_left"

\* C6 (legibility floor): for width, height >= 0 the font size is
\* max(24, floor(sqrt(w^2 + h^2) * 0.34)): never below 24, and above 24 it is
\* the integer f with f <= 0.34 * diag < f + 1, that is
\* (50 f)^2 <= 17^2 (w^2 + h^2) < (50 (f + 1))^2.  A 10 x 10 page gets 24,
\* where the formula alone gives 4.
C6_FontFloor ==
    (call.done /\ call.kind \in {"pdf", "image"} /\ call.w >= 0 /\ call.h >= 0) =>
        LET S == 289 * (call.w * call.w + call.h * call.h)
            f == call.font_size
        IN /\ f >= 24
           /\ f > 24 => (2500 * f * f <= S /\ S < 2500 * (f + 1) * (f + 1))
           /\ f = 24 => S < 2500 * 25 * 25
           /\ (call.w = 10 /\ call.h = 10) =>
                 (f = 24 /\ 2500 * 4 * 4 <= S /\ S < 2500 * 5 * 5)

\* the 10 x 10 page, held up by the floor
C6_Witness ==
    /\ call.done /\ call.kind = "pdf" /\ call.w = 10 /\ call.h = 10
    /\ call.font_size = 24

\* C9 (corner anchoring): a PDF page stored with rotation 0, 90, 180, 270
\* gets the effective angle 315, 225, 135, 45, and an image 315 (-45); the
\* overlay is placed by a corner, never by the centre: 315 bottom-left,
\* 45 top-left, 135 bottom-right, 225 top-right.
C9_CornerAnchors ==
    (call.done /\ call.kind \in {"pdf", "image"} /\ call.rot \in {0, 90, 180, 270}) =>
        LET ang == call.angle % 360
            mx == Margin(call.w)
            my == Margin(call.h)
            left == call.x = mx
            right == call.x = call.w - mx - call.ow
            top == call.y = my
            bottom == call.y = call.h - my - call.oh
        IN /\ call.kind = "image" => ang = 315
           /\ call.kind = "pdf" =>
                 ang = CASE call.rot = 0 -> 315
                         [] call.rot = 90 -> 225
                         [] call.rot = 180 -> 135
                         [] OTHER -> 45
           /\ call.anchor # "center"
           /\ ang = 315 => (call.anchor = "bottom_left" /\ left /\ bottom)
           /\ ang = 45 => (call.anchor = "top_left" /\ left /\ top)
           /\ ang = 135 => (call.anchor = "bottom_right" /\ right /\ bottom)
           /\ ang = 225 => (call.anchor = "top_right" /\ right /\ top)

\* a page stored upside down: anchored at the bottom-right corner
C9_Witness ==
    /\ call.done /\ call.kind = "pdf" /\ call.rot = 180
    /\ call.w = 612 /\ call.h = 792
    /\ call.anchor = "bottom_right"
    /\ call.x = call.w - Margin(call.w) - call.ow
    /\ call.x # Margin(call.w)

\* the overlay and the placement a call returned
Returned(c) == <<c.ow, c.oh, c.x, c.y>>

-----------------------------------------------------------------------------
(* Properties of the batch and the UI.                                      *)

\* a file convert_many can convert
Converts(f) == IsSupported(f) /\ ~Raises(f)

\* the item convert_many appends for f
ItemOf(f) == [fn |-> OutName(f), bytes |-> Stamped(f)]

ItemsOf(files) == [i \in 1..Len(files) |-> ItemOf(files[i])]

\* C2 (batch isolation): a file whose processing fails does not abort the
\* batch: convert_many returns the item of every other supported file, and
\* the failure concerns that file only.
C2_BatchIsolation ==
    run.called => run.out = ItemsOf(SelectSeq(run.files, Converts))

\* C3 (unsupported input is a per-file skip): for any batch, convert_many
\* warns of each file whose extension is neither an image type nor pdf and
\* returns exactly one item per supported file, in the order of the inputs.
C3_UnsupportedSkipped ==
    run.called =>
        LET skipped == SelectSeq(run.files, IsSkipped)
            supported == SelectSeq(run.files, IsSupported)
        IN /\ run.warned = [i \in 1..Len(skipped) |-> skipped[i].name]
           /\ Len(run.out) = Len(supported)
           /\ \A i \in 1..Len(supported) : run.out[i].fn = OutName(supported[i])

\* C7 (upload-count ceiling): no click converts a batch of more files than
\* the ceiling, neither fully nor partially.
C7_UploadCeiling ==
    run.called => Len(run.files) <= UploadCeiling

\* C10 (results match the upload): whenever the ZIP download is offered,
\* session_state.converted is not empty, it is what convert_many returns for
\* the files uploaded now, and the archive holds it.
C10_ResultsMatchUpload ==
    screen.zipOffered =>
        /\ converted # <<>>
        /\ screen.zip = make_zip(converted)
        /\ ~convert_many(uploaded).raised
        /\ converted = convert_many(uploaded).out

====
